---------------------------- MODULE Spec2Model ----------------------------
(***************************************************************************)
(* Static HTTP file server (server.js): the request-handling pipeline      *)
(* handleRequest -> fs.stat callbacks -> serveFile -> read stream events.  *)
(*                                                                         *)
(* A string is a sequence of atoms.  An atom is a one-character string     *)
(* ("/", ".", "?"), a percent escape ("%2e", "%2E") or a run of letters    *)
(* that no check of the program looks inside ("pub", "index", "html").     *)
(* Substring, prefix and split operations work on the atoms, so            *)
(* '%2e%2E'.includes('%2e%2e') is false here as it is in JavaScript.       *)
(***************************************************************************)
EXTENDS Integers, Sequences, FiniteSets, TLC

VARIABLES fs, req, pc, h, res, stream, logs, fsCalls

vars == <<fs, req, pc, h, res, stream, logs, fsCalls>>

---------------------------------------------------------------------------
(* String helpers (String.prototype.includes / startsWith / split / join)  *)

Includes(s, sub) ==
  \E i \in 1..(Len(s) - Len(sub) + 1) : SubSeq(s, i, i + Len(sub) - 1) = sub

StartsWith(s, p) ==
  Len(p) <= Len(s) /\ SubSeq(s, 1, Len(p)) = p

EndsWithSlash(s) == Len(s) > 0 /\ s[Len(s)] = "/"

\* index of the first atom of s that is in set cs, or Len(s)+1
RECURSIVE IndexOfAny(_, _, _)
IndexOfAny(s, cs, i) ==
  IF i > Len(s) THEN Len(s) + 1
  ELSE IF s[i] \in cs THEN i
  ELSE IndexOfAny(s, cs, i + 1)

\* s.split(sep): the segments between separators, empty ones kept
RECURSIVE Split(_, _)
Split(s, sep) ==
  LET i == IndexOfAny(s, {sep}, 1) IN
  IF i > Len(s) THEN <<s>>
  ELSE <<SubSeq(s, 1, i - 1)>> \o Split(SubSeq(s, i + 1, Len(s)), sep)

\* segs.join(sep)
RECURSIVE Join(_, _)
Join(segs, sep) ==
  IF Len(segs) = 0 THEN <<>>
  ELSE IF Len(segs) = 1 THEN segs[1]
  ELSE segs[1] \o <<sep>> \o Join(Tail(segs), sep)

RECURSIVE StripLeading(_, _)
StripLeading(s, c) ==
  IF Len(s) > 0 /\ s[1] = c THEN StripLeading(Tail(s), c) ELSE s

DropLast(q) == SubSeq(q, 1, Len(q) - 1)

---------------------------------------------------------------------------
(* Configuration                                                           *)

\* const WEBROOT = path.resolve(process.env.WEBROOT || './public')
WEBROOT == <<"/", "pub">>

IndexName == <<"index", ".", "html">>

\* MIME_TYPES, keyed by the extension after its dot
MIME_TYPES ==
  [ext \in {"html", "css", "js", "json", "png", "jpg", "jpeg", "gif", "svg",
            "ico", "txt", "xml", "pdf", "woff", "woff2", "ttf", "webp"} |->
     CASE ext = "html"  -> "text/html"
       [] ext = "css"   -> "text/css"
       [] ext = "js"    -> "application/javascript"
       [] ext = "json"  -> "application/json"
       [] ext = "png"   -> "image/png"
       [] ext = "jpg"   -> "image/jpeg"
       [] ext = "jpeg"  -> "image/jpeg"
       [] ext = "gif"   -> "image/gif"
       [] ext = "svg"   -> "image/svg+xml"
       [] ext = "ico"   -> "image/x-icon"
       [] ext = "txt"   -> "text/plain"
       [] ext = "xml"   -> "application/xml"
       [] ext = "pdf"   -> "application/pdf"
       [] ext = "woff"  -> "font/woff"
       [] ext = "woff2" -> "font/woff2"
       [] ext = "ttf"   -> "font/ttf"
       [] ext = "webp"  -> "image/webp"]

---------------------------------------------------------------------------
(* path.normalize / path.join / path.resolve (POSIX)                       *)

\* normalizeString: drop empty and '.' segments, let '..' remove the segment
\* before it; above the root of an absolute path '..' is dropped
RECURSIVE NormalizeSegs(_, _, _)
NormalizeSegs(segs, acc, allowAbove) ==
  IF Len(segs) = 0 THEN acc
  ELSE LET s == segs[1] IN
    IF s = <<>> \/ s = <<".">> THEN NormalizeSegs(Tail(segs), acc, allowAbove)
    ELSE IF s = <<".", ".">> THEN
      IF Len(acc) > 0 /\ acc[Len(acc)] # <<".", ".">>
        THEN NormalizeSegs(Tail(segs), DropLast(acc), allowAbove)
      ELSE IF allowAbove THEN NormalizeSegs(Tail(segs), Append(acc, s), allowAbove)
      ELSE NormalizeSegs(Tail(segs), acc, allowAbove)
    ELSE NormalizeSegs(Tail(segs), Append(acc, s), allowAbove)

PathNormalize(p) ==
  IF Len(p) = 0 THEN <<".">>
  ELSE
    LET isAbsolute == p[1] = "/"
        trailing   == p[Len(p)] = "/"
        body       == Join(NormalizeSegs(Split(p, "/"), <<>>, ~isAbsolute), "/")
        body1      == IF Len(body) = 0 /\ ~isAbsolute THEN <<".">> ELSE body
        body2      == IF Len(body1) > 0 /\ trailing THEN Append(body1, "/") ELSE body1
    IN IF isAbsolute THEN <<"/">> \o body2 ELSE body2

\* path.resolve(a, b) in the place of path.join: an absolute b replaces a
PathJoinAsResolve(a, b) ==
  IF Len(b) > 0 /\ b[1] = "/" THEN PathNormalize(b)
  ELSE PathNormalize(a \o <<"/">> \o b)

\* path.join(a, b) with both arguments non-empty
PathJoin(a, b) == PathNormalize(a \o <<"/">> \o b)

\* path.resolve(p) of an absolute path: normalized, no trailing separator
PathResolve(p) ==
  <<"/">> \o Join(NormalizeSegs(Split(p, "/"), <<>>, FALSE), "/")

\* function isPathSafe(requestedPath)
isPathSafe(requestedPath) ==
  LET normalized == PathNormalize(requestedPath)
      resolved   == PathResolve(normalized)
      webroot    == PathResolve(WEBROOT)
  IN StartsWith(resolved, webroot)

\* function getMimeType(filePath): path.extname(filePath).toLowerCase(), then
\* the table or the fallback
Basename(p) ==
  LET segs == Split(p, "/") IN segs[Len(segs)]

RECURSIVE LastDot(_, _)
LastDot(s, i) ==
  IF i < 1 THEN 0 ELSE IF s[i] = "." THEN i ELSE LastDot(s, i - 1)

\* path.extname: from the last '.' of the last component; none when there is
\* no '.' or the only one is the component's first character
ExtName(p) ==
  LET b == Basename(IF EndsWithSlash(p) /\ Len(p) > 1 THEN DropLast(p) ELSE p)
      d == LastDot(b, Len(b))
  IN IF d <= 1 THEN <<>> ELSE SubSeq(b, d, Len(b))

ToLowerAtom(a) ==
  CASE a = "HTML" -> "html"
    [] a = "TXT"  -> "txt"
    [] OTHER      -> a

\* the extension compared as it is written
ToLowerCaseNone(s) == s

ToLowerCase(s) == [i \in 1..Len(s) |-> ToLowerAtom(s[i])]

getMimeType(filePath) ==
  LET ext == ToLowerCase(ExtName(filePath)) IN
  IF Len(ext) = 2 /\ ext[2] \in DOMAIN MIME_TYPES
    THEN MIME_TYPES[ext[2]]
    ELSE "application/octet-stream"

---------------------------------------------------------------------------
(* new URL(req.url, `http://${req.headers.host}`).pathname                 *)
(* (WHATWG URL parser, special scheme http, input without a scheme)        *)

DotForms == {".", "%2e", "%2E"}

IsSingleDot(seg) == Len(seg) = 1 /\ seg[1] \in DotForms
IsDoubleDot(seg) == Len(seg) = 2 /\ seg[1] \in DotForms /\ seg[2] \in DotForms

\* path state: a double-dot segment removes the segment before it, a
\* single-dot segment is dropped, the last segment always leaves an entry;
\* percent escapes are kept as they are written (nothing is decoded)
RECURSIVE UrlPathState(_, _)
UrlPathState(segs, path) ==
  IF Len(segs) = 0 THEN path
  ELSE
    LET seg    == segs[1]
        isLast == Len(segs) = 1
        slot   == IF isLast THEN << <<>> >> ELSE <<>>
    IN IF IsDoubleDot(seg)
         THEN UrlPathState(Tail(segs),
                (IF Len(path) > 0 THEN DropLast(path) ELSE path) \o slot)
       ELSE IF IsSingleDot(seg)
         THEN UrlPathState(Tail(segs), path \o slot)
       ELSE UrlPathState(Tail(segs), Append(path, seg))

\* the part of the input before its query or fragment
BeforeQuery(s) == SubSeq(s, 1, IndexOfAny(s, {"?", "#"}, 1) - 1)

UrlSerializePath(p) ==
  <<"/">> \o Join(UrlPathState(Tail(Split(p, "/")), <<>>), "/")

\* the Host header makes the base URL; a forbidden host code point fails it
HostHeaderOk(host) ==
  Len(host) > 0 /\ \A i \in 1..Len(host) : host[i] \notin {" ", "%zz"}

\* [ok, pathname]: ok = FALSE is the TypeError of the constructor
UrlParse(url, host) ==
  IF ~HostHeaderOk(host) THEN [ok |-> FALSE, pathname |-> <<>>]
  ELSE
    LET input == BeforeQuery(url) IN
    IF StartsWith(input, <<"/", "/">>) THEN
      \* scheme-relative: the slashes are skipped, then an authority is read
      LET rest  == StripLeading(input, "/")
          hEnd  == IndexOfAny(rest, {"/"}, 1)
          hst   == SubSeq(rest, 1, hEnd - 1)
          pth   == SubSeq(rest, hEnd, Len(rest))
      IN IF ~HostHeaderOk(hst) THEN [ok |-> FALSE, pathname |-> <<>>]
         ELSE [ok |-> TRUE,
               pathname |-> IF Len(pth) = 0 THEN <<"/">> ELSE UrlSerializePath(pth)]
    ELSE IF Len(input) > 0 /\ input[1] = "/" THEN
      [ok |-> TRUE, pathname |-> UrlSerializePath(input)]
    ELSE
      \* relative to the base path "/"
      [ok |-> TRUE, pathname |-> UrlSerializePath(<<"/">> \o input)]

\* rawUrl.includes('..') || rawUrl.includes('%2e%2e') || rawUrl.includes('%2E%2E')
PreScreen(rawUrl) ==
  \/ Includes(rawUrl, <<".", ".">>)
  \/ Includes(rawUrl, <<"%2e", "%2e">>)
  \/ Includes(rawUrl, <<"%2E", "%2E">>)

\* a gate that lets POST through
MethodAllowedWithPost(method) == method \in {"GET", "HEAD", "POST"}

MethodAllowed(method) == method = "GET" \/ method = "HEAD"

---------------------------------------------------------------------------
(* Dates: Date.prototype.toUTCString and new Date(string)                  *)

\* stats.mtime.toUTCString(): an HTTP-date, whole seconds
ToUTCString(ms) == [kind |-> "date", sec |-> ms \div 1000]

\* new Date(headerValue): the time value, or NaN (Invalid Date)
DateParse(v) ==
  IF v.kind = "date" THEN [nan |-> FALSE, ms |-> v.sec * 1000]
  ELSE [nan |-> TRUE, ms |-> 0]

\* a strict comparison in the place of <=
DateLeqStrict(a, b) == ~a.nan /\ ~b.nan /\ a.ms < b.ms

\* the comparison written as !(a > b): true when either is NaN
DateLeqNotGreater(a, b) == ~(~a.nan /\ ~b.nan /\ a.ms > b.ms)

\* a <= b on two Dates: false when either is NaN
DateLeq(a, b) == ~a.nan /\ ~b.nan /\ a.ms <= b.ms

\* if (ifModifiedSince): a header that is present and not the empty string
Truthy(v) == v.kind \in {"date", "garbage"}

---------------------------------------------------------------------------
(* The filesystem as fs.stat and fs.createReadStream see it.  A path of    *)
(* the filesystem is a sequence of names; a name is a string.              *)

Dir(searchable, mtime) ==
  [kind |-> "dir", search |-> searchable, content |-> <<>>, mtime |-> mtime, to |-> <<>>]
File(content, mtime) ==
  [kind |-> "file", search |-> FALSE, content |-> content, mtime |-> mtime, to |-> <<>>]
Link(to) ==
  [kind |-> "link", search |-> FALSE, content |-> <<>>, mtime |-> 0, to |-> to]

\* The served tree: /pub (WEBROOT) holds index.html, the file f, the
\* directory pub (no index.html), the directory x (no search permission) and
\* the symbolic link l to /pubf, a file beside the root whose name has the
\* root's name as a prefix.
TreeFS ==
  ( << >>                        :> Dir(TRUE, 100) ) @@
  ( << <<"pub">> >>              :> Dir(TRUE, 100) ) @@
  ( << <<"pub">>, IndexName >>   :> File(<<"i", "x">>, 2500) ) @@
  ( << <<"pub">>, <<"f">> >>     :> File(<<"f">>, 1500) ) @@
  ( << <<"pub">>, <<"pub">> >>   :> Dir(TRUE, 100) ) @@
  ( << <<"pub">>, <<"x">> >>     :> Dir(FALSE, 100) ) @@
  ( << <<"pub">>, <<"l">> >>     :> Link(<< <<"pub", "f">> >>) ) @@
  ( << <<"pub", "f">> >>         :> File(<<"s", "e", "c">>, 500) )

\* the names of a path string, empty components (repeated separators) dropped
Components(p) == SelectSeq(Split(p, "/"), LAMBDA seg : Len(seg) > 0)

StatErr(code) ==
  [err |-> code, kind |-> "none", size |-> 0, mtime |-> 0, real |-> <<>>]

\* Path resolution as stat(2) does it: every directory on the way must be a
\* searchable directory, symbolic links are followed, a trailing separator
\* asks for a directory.
RECURSIVE Walk(_, _, _, _, _)
Walk(fsys, cur, names, mustBeDir, hops) ==
  LET node == fsys[cur] IN
  IF Len(names) = 0 THEN
    IF mustBeDir /\ node.kind # "dir" THEN StatErr("ENOTDIR")
    ELSE [err |-> "", kind |-> node.kind, size |-> Len(node.content),
          mtime |-> node.mtime, real |-> cur]
  ELSE IF node.kind # "dir" THEN StatErr("ENOTDIR")
  ELSE IF ~node.search THEN StatErr("EACCES")
  ELSE
    LET child == Append(cur, names[1]) IN
    IF child \notin DOMAIN fsys THEN StatErr("ENOENT")
    ELSE IF fsys[child].kind = "link" THEN
      IF hops >= 2 THEN StatErr("ELOOP")
      ELSE Walk(fsys, << >>, fsys[child].to \o Tail(names), mustBeDir, hops + 1)
    ELSE Walk(fsys, child, Tail(names), mustBeDir, hops)

\* fs.stat(path): [err, kind, size, mtime] and, for the model's bookkeeping,
\* the real location the path resolved to
Stat(fsys, p) ==
  Walk(fsys, << >>, Components(p), EndsWithSlash(p) /\ Len(Components(p)) > 0, 0)

\* a stat answered from the tree as it was when the server started
FsStatCached(p) == Stat(TreeFS, p)

\* fs.stat(p) on the filesystem as it is when the call is made
FsStat(p) == Stat(fs, p)

\* a real location lies in the root: it is the root or below it
InsideRoot(real) ==
  LET root == Components(WEBROOT) IN
  Len(real) >= Len(root) /\ SubSeq(real, 1, Len(root)) = root

---------------------------------------------------------------------------
(* http.ServerResponse and the log                                         *)

\* heads: the writeHead calls made; body: the bytes put on the wire; ended:
\* res.end was called; destroyed: the socket was torn down under the response
NewResponse == [heads |-> <<>>, body |-> <<>>, ended |-> FALSE, destroyed |-> FALSE]

\* res.writeHead(statusCode, headers)
ResWriteHead(r, statusCode, headers) ==
  [r EXCEPT !.heads = Append(@, [status |-> statusCode, headers |-> headers])]

\* a res.end that puts the data on the wire whatever the method is
ResEndWritesBody(r, method, chunks) ==
  [r EXCEPT !.body = @ \o chunks, !.ended = TRUE]

\* res.end(data): the data goes on the wire unless the response can have no
\* body (a HEAD request, a 304); chunks is <<>> for res.end()
ResEnd(r, method, chunks) ==
  LET status  == r.heads[Len(r.heads)].status
      hasBody == method # "HEAD" /\ status # 304
  IN [r EXCEPT !.body = IF hasBody THEN @ \o chunks ELSE @, !.ended = TRUE]

\* res.write(chunk), as the pipeline calls it
ResWrite(r, method, chunk) ==
  LET status  == r.heads[Len(r.heads)].status
      hasBody == method # "HEAD" /\ status # 304
  IN [r EXCEPT !.body = IF hasBody THEN @ \o chunk ELSE @]

\* logRequest(req, statusCode, bytesSent)
LogRecord(statusCode, bytesSent) == [status |-> statusCode, bytes |-> bytesSent]

ErrorBody(statusCode, message) == ToString(statusCode) \o " " \o message \o "\n"

\* a caller that goes on after sendError (a missing return) and reaches
\* the next sendError, the one for 500
SendErrorFallsThrough(id, statusCode, message) ==
  LET body  == ErrorBody(statusCode, message)
      body2 == ErrorBody(500, "Internal Server Error")
      first == ResEnd(ResWriteHead(res[id], statusCode,
                        ("Content-Type" :> "text/plain") @@
                        ("Content-Length" :> Len(body))),
                      req[id].method, <<body>>)
  IN
  /\ res' = [res EXCEPT ![id] =
               ResEnd(ResWriteHead(first, 500,
                        ("Content-Type" :> "text/plain") @@
                        ("Content-Length" :> Len(body2))),
                      req[id].method, <<body2>>)]
  /\ logs' = [logs EXCEPT ![id] = @ \o << LogRecord(statusCode, Len(body)),
                                          LogRecord(500, Len(body2)) >>]
  /\ pc' = [pc EXCEPT ![id] = "done"]
  /\ UNCHANGED stream

\* function sendError(res, statusCode, message, req)
SendError(id, statusCode, message) ==
  LET body == ErrorBody(statusCode, message) IN
  /\ res' = [res EXCEPT ![id] =
               ResEnd(ResWriteHead(@, statusCode,
                        ("Content-Type" :> "text/plain") @@
                        ("Content-Length" :> Len(body))),
                      req[id].method, <<body>>)]
  /\ logs' = [logs EXCEPT ![id] = Append(@, LogRecord(statusCode, Len(body)))]
  /\ pc' = [pc EXCEPT ![id] = "done"]
  /\ UNCHANGED stream

CacheControl == "public, max-age=60"

---------------------------------------------------------------------------
(* handleRequest, its fs.stat callbacks, serveFile and the stream events   *)

NoRoute == [pathname |-> <<>>, filePath |-> <<>>]

\* The synchronous part of handleRequest up to the fs.stat call: the stages
\* passed, the outcome reached and the paths computed.
Route(r) ==
  IF ~MethodAllowed(r.method)
    THEN [out |-> "405", stages |-> <<"method">>] @@ NoRoute
  ELSE IF PreScreen(r.url)
    THEN [out |-> "403", stages |-> <<"method", "prescreen">>] @@ NoRoute
  ELSE
    LET u == UrlParse(r.url, r.host) IN
    IF ~u.ok
      THEN [out |-> "400", stages |-> <<"method", "prescreen", "decode">>] @@ NoRoute
    ELSE
      LET pathname == PathNormalize(u.pathname)
          filePath == PathJoin(WEBROOT, pathname)
      IN [out      |-> IF isPathSafe(filePath) THEN "stat" ELSE "403",
          stages   |-> <<"method", "prescreen", "decode", "normalize", "contain">>,
          pathname |-> pathname,
          filePath |-> filePath]

\* a server that takes up a request only when every request before it, on
\* whatever connection, is finished
TurnOneAtATime(id) ==
  \A j \in DOMAIN req : j < id => pc[j] = "done"

\* the client of a connection sends its next request when the response to
\* the one before is complete
Turn(id) ==
  \A j \in DOMAIN req : (req[j].conn = req[id].conn /\ j < id) => pc[j] = "done"

\* function handleRequest(req, res), lines 84-125
HandleRequest(id) ==
  /\ pc[id] = "arrived"
  /\ Turn(id)
  /\ LET rt == Route(req[id]) IN
     /\ h' = [h EXCEPT ![id] = [pathname |-> rt.pathname, filePath |-> rt.filePath,
                                stages |-> rt.stages \o
                                  (IF rt.out = "stat" THEN <<"stat">> ELSE <<>>)]]
     /\ CASE rt.out = "405" ->
               /\ res' = [res EXCEPT ![id] =
                            ResEnd(ResWriteHead(@, 405,
                                     ("Allow" :> "GET, HEAD") @@
                                     ("Content-Type" :> "text/plain")),
                                   req[id].method, <<"405 Method Not Allowed\n">>)]
               /\ logs' = [logs EXCEPT ![id] = Append(@, LogRecord(405, 24))]
               /\ pc' = [pc EXCEPT ![id] = "done"]
               /\ UNCHANGED <<stream, fsCalls>>
          [] rt.out = "403" ->
               SendError(id, 403, "Forbidden") /\ UNCHANGED fsCalls
          [] rt.out = "400" ->
               SendError(id, 400, "Bad Request") /\ UNCHANGED fsCalls
          [] rt.out = "stat" ->
               /\ fsCalls' = [fsCalls EXCEPT ![id] =
                                Append(@, [op |-> "stat", path |-> rt.filePath])]
               /\ pc' = [pc EXCEPT ![id] = "stat"]
               /\ UNCHANGED <<res, logs, stream>>
  /\ UNCHANGED <<fs, req>>

\* fd: the read stream holds an open file descriptor
NoStream == [state |-> "none", path |-> <<>>, real |-> <<>>, pos |-> 0, bytesSent |-> 0,
             fd |-> FALSE]

\* the conditional check made for GET only
IsNotModifiedGetOnly(r, lastModified) ==
  /\ r.method = "GET"
  /\ Truthy(r.ims)
  /\ DateLeq(DateParse(lastModified), DateParse(r.ims))

\* lines 162-168: the If-Modified-Since header is present and the file's
\* Last-Modified date is not after it
IsNotModified(r, lastModified) ==
  /\ Truthy(r.ims)
  /\ DateLeq(DateParse(lastModified), DateParse(r.ims))

\* the 200 headers sent for 304 as well
NotModifiedHeadersLikeOk(lastModified) ==
  ("Content-Type" :> "text/html") @@
  ("Content-Length" :> 0) @@
  ("Last-Modified" :> lastModified) @@
  ("Cache-Control" :> CacheControl)

\* the headers of the 304 response, lines 169-172
NotModifiedHeaders(lastModified) ==
  ("Last-Modified" :> lastModified) @@
  ("Cache-Control" :> CacheControl)

\* 200 headers without Content-Length
OkHeadersNoLength(mimeType, fileSize, lastModified) ==
  ("Content-Type" :> mimeType) @@
  ("Last-Modified" :> lastModified) @@
  ("Cache-Control" :> CacheControl)

\* the headers of the 200 response, lines 180-185
OkHeaders(mimeType, fileSize, lastModified) ==
  ("Content-Type" :> mimeType) @@
  ("Content-Length" :> fileSize) @@
  ("Last-Modified" :> lastModified) @@
  ("Cache-Control" :> CacheControl)

\* function serveFile(filePath, stats, req, res), lines 156-217
ServeFile(id, filePath, stats) ==
  LET r            == req[id]
      mimeType     == getMimeType(filePath)
      fileSize     == stats.size
      lastModified == ToUTCString(stats.mtime)
      notModified  == IsNotModified(r, lastModified)
      head200      == OkHeaders(mimeType, fileSize, lastModified)
  IN
  IF notModified THEN
    /\ res' = [res EXCEPT ![id] =
                 ResEnd(ResWriteHead(@, 304, NotModifiedHeaders(lastModified)),
                        r.method, <<>>)]
    /\ logs' = [logs EXCEPT ![id] = Append(@, LogRecord(304, 0))]
    /\ pc' = [pc EXCEPT ![id] = "done"]
    /\ UNCHANGED <<stream, fsCalls>>
  ELSE IF r.method = "HEAD" THEN
    /\ res' = [res EXCEPT ![id] = ResEnd(ResWriteHead(@, 200, head200), r.method, <<>>)]
    /\ logs' = [logs EXCEPT ![id] = Append(@, LogRecord(200, 0))]
    /\ pc' = [pc EXCEPT ![id] = "done"]
    /\ UNCHANGED <<stream, fsCalls>>
  ELSE
    /\ res' = [res EXCEPT ![id] = ResWriteHead(@, 200, head200)]
    /\ stream' = [stream EXCEPT ![id] = [NoStream EXCEPT !.state = "created",
                                                         !.path = filePath]]
    /\ fsCalls' = [fsCalls EXCEPT ![id] = Append(@, [op |-> "open", path |-> filePath])]
    /\ pc' = [pc EXCEPT ![id] = "streaming"]
    /\ UNCHANGED logs

\* every failure of the first stat answered 500
StatErrorStatusAlways500(code) == 500

\* the status sent when the first stat fails, lines 126-131
StatErrorStatus(code) == IF code = "ENOENT" THEN 404 ELSE 500

StatusMessage(statusCode) ==
  CASE statusCode = 404 -> "Not Found"
    [] statusCode = 403 -> "Forbidden"
    [] OTHER            -> "Internal Server Error"

\* the first stat's error handling repeated for index.html
IndexErrorStatusLikeStat(code) == IF code = "ENOENT" THEN 404 ELSE 500

\* the status sent when the stat of index.html fails, lines 138-143
IndexErrorStatus(code) == 403

\* the callback of fs.stat(filePath, ...), lines 125-150
StatCallback(id) ==
  /\ pc[id] = "stat"
  /\ LET stats == FsStat(h[id].filePath) IN
     IF stats.err # "" THEN
       /\ SendError(id, StatErrorStatus(stats.err), StatusMessage(StatErrorStatus(stats.err)))
       /\ h' = [h EXCEPT ![id].stages = Append(@, "rejected")]
       /\ UNCHANGED fsCalls
     ELSE IF stats.kind = "dir" THEN
       LET indexPath == PathJoin(h[id].filePath, IndexName) IN
       /\ h' = [h EXCEPT ![id].filePath = indexPath, ![id].stages = Append(@, "statIndex")]
       /\ fsCalls' = [fsCalls EXCEPT ![id] = Append(@, [op |-> "stat", path |-> indexPath])]
       /\ pc' = [pc EXCEPT ![id] = "statIndex"]
       /\ UNCHANGED <<res, logs, stream>>
     ELSE
       /\ ServeFile(id, h[id].filePath, stats)
       /\ h' = [h EXCEPT ![id].stages = Append(@, "serveFile")]
  /\ UNCHANGED <<fs, req>>

\* the callback of fs.stat(<directory>/index.html, ...), lines 137-146
IndexStatCallback(id) ==
  /\ pc[id] = "statIndex"
  /\ LET indexStats == FsStat(h[id].filePath) IN
     IF indexStats.err # "" THEN
       /\ SendError(id, IndexErrorStatus(indexStats.err),
                    StatusMessage(IndexErrorStatus(indexStats.err)))
       /\ h' = [h EXCEPT ![id].stages = Append(@, "rejected")]
       /\ UNCHANGED fsCalls
     ELSE
       /\ ServeFile(id, h[id].filePath, indexStats)
       /\ h' = [h EXCEPT ![id].stages = Append(@, "serveIndex")]
  /\ UNCHANGED <<fs, req>>

\* the read stream opens its file (fs.createReadStream opens lazily)
StreamOpen(id) ==
  /\ pc[id] = "streaming"
  /\ stream[id].state = "created"
  /\ LET o == Stat(fs, stream[id].path) IN
     /\ o.err = "" /\ o.kind = "file"
     /\ stream' = [stream EXCEPT ![id].state = "open", ![id].real = o.real,
                                 ![id].fd = TRUE]
  /\ UNCHANGED <<fs, req, pc, h, res, logs, fsCalls>>

\* a 'data' listener that consumes the chunks with no pipeline behind it
StreamDataUnpiped(id) ==
  /\ pc[id] = "streaming"
  /\ stream[id].state = "open"
  /\ LET content == fs[stream[id].real].content
         pos     == stream[id].pos
     IN \E k \in 1..(Len(content) - pos) :
          stream' = [stream EXCEPT ![id].pos = pos + k, ![id].bytesSent = @ + k]
  /\ UNCHANGED <<fs, req, pc, h, res, logs, fsCalls>>

\* readStream 'data': the listener of line 199 counts the chunk and the
\* pipeline writes it to the response
StreamData(id) ==
  /\ pc[id] = "streaming"
  /\ stream[id].state = "open"
  /\ LET content == fs[stream[id].real].content
         pos     == stream[id].pos
     IN \E k \in 1..(Len(content) - pos) :
          LET chunk == SubSeq(content, pos + 1, pos + k) IN
          /\ stream' = [stream EXCEPT ![id].pos = pos + k,
                                      ![id].bytesSent = @ + Len(chunk)]
          /\ res' = [res EXCEPT ![id] = ResWrite(@, req[id].method, chunk)]
  /\ UNCHANGED <<fs, req, pc, h, logs, fsCalls>>

\* readStream 'end': a read at or past the end of the file as it is now
\* returns no bytes; the listener of line 203 logs and the pipeline ends the
\* response; the stream closes its file afterwards (StreamClose)
StreamEnd(id) ==
  /\ pc[id] = "streaming"
  /\ stream[id].state = "open"
  /\ stream[id].pos >= Len(fs[stream[id].real].content)
  /\ logs' = [logs EXCEPT ![id] = Append(@, LogRecord(200, stream[id].bytesSent))]
  /\ res' = [res EXCEPT ![id].ended = TRUE]
  /\ stream' = [stream EXCEPT ![id].state = "ended"]
  /\ pc' = [pc EXCEPT ![id] = "done"]
  /\ UNCHANGED <<fs, req, h, fsCalls>>

\* the read stream destroys itself after 'end', after 'error' and when the
\* pipeline destroys it (autoClose): the file descriptor is closed
StreamClose(id) ==
  /\ stream[id].state \in {"ended", "errored", "destroyed"}
  /\ stream[id].fd
  /\ stream' = [stream EXCEPT ![id].fd = FALSE]
  /\ UNCHANGED <<fs, req, pc, h, res, logs, fsCalls>>

\* the open or a read of the stream fails: the file is gone or is no regular
\* file when the stream opens it, or the disk fails under an open stream
ReadFails(id) ==
  \/ /\ stream[id].state = "created"
     /\ LET o == Stat(fs, stream[id].path) IN o.err # "" \/ o.kind # "file"
  \/ stream[id].state = "open"

\* an 'error' listener that answers the failure with sendError
StreamErrorSendsError(id) ==
  /\ pc[id] = "streaming"
  /\ ReadFails(id)
  /\ res' = [res EXCEPT ![id] =
               ResEnd(ResWriteHead(@, 500,
                        ("Content-Type" :> "text/plain") @@
                        ("Content-Length" :> 26)),
                      req[id].method, <<"500 Internal Server Error\n">>)]
  /\ logs' = [logs EXCEPT ![id] = Append(@, LogRecord(500, 26))]
  /\ stream' = [stream EXCEPT ![id].state = "errored"]
  /\ pc' = [pc EXCEPT ![id] = "done"]
  /\ UNCHANGED <<fs, req, h, fsCalls>>

\* readStream 'error': the listener of line 207 logs 500 with 0 bytes; the
\* pipeline destroys the response (the socket is closed with the response
\* unfinished) and its callback reports the error on the console
StreamError(id) ==
  /\ pc[id] = "streaming"
  /\ ReadFails(id)
  /\ logs' = [logs EXCEPT ![id] = Append(@, LogRecord(500, 0))]
  /\ res' = [res EXCEPT ![id].destroyed = TRUE]
  /\ stream' = [stream EXCEPT ![id].state = "errored"]
  /\ pc' = [pc EXCEPT ![id] = "done"]
  /\ UNCHANGED <<fs, req, h, fsCalls>>

\* a piping that leaves the source alone when the destination closes
\* (readStream.pipe(res)): the stream stops with its file still open
ClientCloseUnpiped(id) ==
  /\ pc[id] = "streaming"
  /\ stream[id].state \in {"created", "open"}
  /\ res' = [res EXCEPT ![id].destroyed = TRUE]
  /\ stream' = [stream EXCEPT ![id].state = "stalled"]
  /\ pc' = [pc EXCEPT ![id] = "done"]
  /\ UNCHANGED <<fs, req, h, logs, fsCalls>>

\* a pipeline that destroys the read stream without an error, so that the
\* stream emits 'close' only and no listener of serveFile runs
ClientCloseSilent(id) ==
  /\ pc[id] = "streaming"
  /\ stream[id].state \in {"created", "open"}
  /\ res' = [res EXCEPT ![id].destroyed = TRUE]
  /\ stream' = [stream EXCEPT ![id].state = "destroyed"]
  /\ pc' = [pc EXCEPT ![id] = "done"]
  /\ UNCHANGED <<fs, req, h, logs, fsCalls>>

\* the client disconnects during the transfer: the response closes before
\* it has finished and the pipeline destroys the read stream with the
\* premature-close error (readStream.destroy(err)); the stream emits 'error',
\* the listener of line 207 logs 500 with 0 bytes, and the pipeline callback
\* reports the error on the console
ClientClose(id) ==
  /\ pc[id] = "streaming"
  /\ stream[id].state \in {"created", "open"}
  /\ logs' = [logs EXCEPT ![id] = Append(@, LogRecord(500, 0))]
  /\ res' = [res EXCEPT ![id].destroyed = TRUE]
  /\ stream' = [stream EXCEPT ![id].state = "destroyed"]
  /\ pc' = [pc EXCEPT ![id] = "done"]
  /\ UNCHANGED <<fs, req, h, fsCalls>>

\* Something outside the server removes a file of the served tree.  A descriptor
\* that is open keeps the file's data readable until it is closed, so a
\* removal under an open stream shows as a removal after its close.
Unlink(p) ==
  /\ p \in DOMAIN fs
  /\ fs[p].kind = "file"
  /\ InsideRoot(p)
  /\ \A id \in DOMAIN req : stream[id].fd => stream[id].real # p
  /\ fs' = [q \in DOMAIN fs \ {p} |-> fs[q]]
  /\ UNCHANGED <<req, pc, h, res, stream, logs, fsCalls>>

---------------------------------------------------------------------------
(* Requests and specifications                                             *)

MaxParts == 3

Methods == {"GET", "HEAD", "POST"}

Hosts == { <<"localhost">>, <<"bad", " ", "host">> }

NoHeader == [kind |-> "none", sec |-> 0]
Garbage  == [kind |-> "garbage", sec |-> 0]
HttpDate(sec) == [kind |-> "date", sec |-> sec]

\* If-Modified-Since: absent, unparseable, or an HTTP-date
Conditionals == {NoHeader, Garbage, HttpDate(1), HttpDate(2)}

RECURSIVE Flatten(_)
Flatten(ss) == IF Len(ss) = 0 THEN <<>> ELSE ss[1] \o Flatten(Tail(ss))

\* origin-form request targets: "/" followed by up to n parts
Targets(parts, n) ==
  { <<"/">> \o Flatten(ps) : ps \in UNION { [1..k -> parts] : k \in 0..n } }

TreeParts ==
  { <<"/">>, <<".">>, <<"%2e">>, <<"%2E">>, <<"f">>, <<"pub">>, <<"l">>, <<"x">>,
    IndexName }

Fresh(ids) ==
  /\ pc = [id \in ids |-> "arrived"]
  /\ h = [id \in ids |-> NoRoute @@ [stages |-> <<>>]]
  /\ res = [id \in ids |-> NewResponse]
  /\ stream = [id \in ids |-> NoStream]
  /\ logs = [id \in ids |-> <<>>]
  /\ fsCalls = [id \in ids |-> <<>>]

\* one request against the served tree
Init ==
  /\ fs = TreeFS
  /\ \E m \in Methods, u \in Targets(TreeParts, MaxParts), host \in Hosts,
        c \in Conditionals :
       req = (1 :> [conn |-> 1, method |-> m, url |-> u, host |-> host, ims |-> c])
  /\ Fresh({1})

Next ==
  \/ \E id \in DOMAIN req : HandleRequest(id)
  \/ \E id \in DOMAIN req : StatCallback(id)
  \/ \E id \in DOMAIN req : IndexStatCallback(id)
  \/ \E id \in DOMAIN req : StreamOpen(id)
  \/ \E id \in DOMAIN req : StreamData(id)
  \/ \E id \in DOMAIN req : StreamEnd(id)
  \/ \E id \in DOMAIN req : StreamClose(id)

Spec == Init /\ [][Next]_vars

\* Two requests on one connection for the same target with the same Host:
\* a GET then a HEAD with the same If-Modified-Since, or the same method
\* once without If-Modified-Since and once with an unparseable one.
PairParts == { <<"/">>, <<"f">>, <<"pub">>, <<"l">>, <<"x">>, IndexName }

PairInputs ==
  { <<"GET", c, "HEAD", c>> : c \in Conditionals } \cup
  { <<m, NoHeader, m, Garbage>> : m \in {"GET", "HEAD"} }

InitPair ==
  /\ fs = TreeFS
  /\ \E u \in Targets(PairParts, MaxParts), host \in Hosts, k \in PairInputs :
       req = (1 :> [conn |-> 1, method |-> k[1], url |-> u, host |-> host, ims |-> k[2]])
          @@ (2 :> [conn |-> 1, method |-> k[3], url |-> u, host |-> host, ims |-> k[4]])
  /\ Fresh({1, 2})

SpecPair == InitPair /\ [][Next]_vars

\* Two requests, one after the other, while the transfer can fail, the
\* client can disconnect and files of the tree can be removed: any request,
\* then a GET or HEAD for the same target.
IOParts == { <<"/">>, <<"f">> }

IOConditionals == {NoHeader, HttpDate(2)}

InitIO ==
  /\ fs = TreeFS
  /\ \E m \in Methods, u \in Targets(IOParts, MaxParts), c \in IOConditionals,
        m2 \in {"GET", "HEAD"} :
       req = (1 :> [conn |-> 1, method |-> m, url |-> u, host |-> <<"localhost">>,
                    ims |-> c])
          @@ (2 :> [conn |-> 1, method |-> m2, url |-> u, host |-> <<"localhost">>,
                    ims |-> NoHeader])
  /\ Fresh({1, 2})

NextIO ==
  \/ \E id \in DOMAIN req : HandleRequest(id)
  \/ \E id \in DOMAIN req : StatCallback(id)
  \/ \E id \in DOMAIN req : IndexStatCallback(id)
  \/ \E id \in DOMAIN req : StreamOpen(id)
  \/ \E id \in DOMAIN req : StreamData(id)
  \/ \E id \in DOMAIN req : StreamEnd(id)
  \/ \E id \in DOMAIN req : StreamClose(id)
  \/ \E id \in DOMAIN req : StreamError(id)
  \/ \E id \in DOMAIN req : ClientClose(id)
  \/ \E p \in DOMAIN fs : Unlink(p)

SpecIO == InitIO /\ [][NextIO]_vars

\* The event loop runs a stream callback that is ready, and a client either
\* takes the bytes it is sent or disconnects: while a read stream has a step
\* to take, the streams do not stand still forever.
StreamStep ==
  \E id \in {1, 2} :
    \/ StreamOpen(id) \/ StreamData(id) \/ StreamEnd(id) \/ StreamClose(id)
    \/ StreamError(id) \/ ClientClose(id)

FairIO == WF_vars(StreamStep)

SpecIOFair == SpecIO /\ FairIO

\* Something outside the server writes a file of the root directory: it
\* creates it, or replaces its content and modification time (a longer or
\* shorter content resizes it, the same content touches it).
WriteFile(p, content, mtime) ==
  /\ Len(p) = 2 /\ p[1] = <<"pub">>
  /\ p \in DOMAIN fs => fs[p].kind = "file"
  /\ fs' = (p :> File(content, mtime)) @@ fs
  /\ UNCHANGED <<req, pc, h, res, stream, logs, fsCalls>>

WritePaths == { << <<"pub">>, IndexName >>, << <<"pub">>, <<"f">> >>, << <<"pub">>, <<"n">> >> }

WriteContents == { <<>>, <<"a", "b", "c">> }

WriteTimes == {1500, 3500}

\* Two requests for one target, one after the other, and one change made to
\* the tree from outside between them.
ChangeParts == { <<"/">>, <<"f">>, <<"n">> }

InitChange ==
  /\ fs = TreeFS
  /\ \E m \in {"GET", "HEAD"}, u \in Targets(ChangeParts, MaxParts),
        c \in IOConditionals :
       req = (1 :> [conn |-> 1, method |-> m, url |-> u, host |-> <<"localhost">>,
                    ims |-> NoHeader])
          @@ (2 :> [conn |-> 1, method |-> m, url |-> u, host |-> <<"localhost">>,
                    ims |-> c])
  /\ Fresh({1, 2})

\* the first request is finished and the second has not started
Between == pc[1] = "done" /\ pc[2] = "arrived" /\ fs = TreeFS

NextChange ==
  \/ \E id \in DOMAIN req : HandleRequest(id)
  \/ \E id \in DOMAIN req : StatCallback(id)
  \/ \E id \in DOMAIN req : IndexStatCallback(id)
  \/ \E id \in DOMAIN req : StreamOpen(id)
  \/ \E id \in DOMAIN req : StreamData(id)
  \/ \E id \in DOMAIN req : StreamEnd(id)
  \/ \E id \in DOMAIN req : StreamClose(id)
  \/ Between /\ \E p \in WritePaths, c \in WriteContents, t \in WriteTimes :
                  WriteFile(p, c, t)
  \/ Between /\ \E p \in DOMAIN fs : Unlink(p)

SpecChange == InitChange /\ [][NextChange]_vars

\* A tree of files named with extensions: in and out of the table, in upper
\* case, none, a dot file, two dots, a trailing dot, and a directory named
\* like a stylesheet that holds an index.html.
MimeFS ==
  ( << >>                                        :> Dir(TRUE, 100) ) @@
  ( << <<"pub">> >>                              :> Dir(TRUE, 100) ) @@
  ( << <<"pub">>, IndexName >>                   :> File(<<"i", "x">>, 2500) ) @@
  ( << <<"pub">>, <<"f">> >>                     :> File(<<"f">>, 1500) ) @@
  ( << <<"pub">>, <<"a", ".", "HTML">> >>        :> File(<<"h">>, 1500) ) @@
  ( << <<"pub">>, <<"a", ".", "css">> >>         :> File(<<"c">>, 1500) ) @@
  ( << <<"pub">>, <<"a", ".", "bin">> >>         :> File(<<"b">>, 1500) ) @@
  ( << <<"pub">>, <<".", "txt">> >>              :> File(<<"t">>, 1500) ) @@
  ( << <<"pub">>, <<"a", ".", "b", ".", "TXT">> >> :> File(<<"t", "t">>, 1500) ) @@
  ( << <<"pub">>, <<"a", ".">> >>                :> File(<<"d">>, 1500) ) @@
  ( << <<"pub">>, <<"d", ".", "css">> >>         :> Dir(TRUE, 100) ) @@
  ( << <<"pub">>, <<"d", ".", "css">>, IndexName >> :> File(<<"i">>, 1500) )

\* the names of the tree, each a part of a request target
MimeParts ==
  { <<"/">>, <<"f">>, <<"a", ".", "HTML">>, <<"a", ".", "css">>, <<"a", ".", "bin">>,
    <<".", "txt">>, <<"a", ".", "b", ".", "TXT">>, <<"a", ".">>, <<"d", ".", "css">> }

InitMime ==
  /\ fs = MimeFS
  /\ \E m \in {"GET", "HEAD"}, u \in Targets(MimeParts, MaxParts) :
       req = (1 :> [conn |-> 1, method |-> m, url |-> u, host |-> <<"localhost">>,
                    ims |-> NoHeader])
  /\ Fresh({1})

SpecMime == InitMime /\ [][Next]_vars

\* isPathSafe called on its own with an absolute path (given in the url field):
\* the path is kept and the position records what the call returned.
CallIsPathSafe(id) ==
  /\ pc[id] = "arrived"
  /\ h' = [h EXCEPT ![id].filePath = req[id].url]
  /\ pc' = [pc EXCEPT ![id] = IF isPathSafe(req[id].url) THEN "safe" ELSE "unsafe"]
  /\ UNCHANGED <<fs, req, res, stream, logs, fsCalls>>

SafeParts == { <<"/">>, <<".">>, <<"pub">>, <<"f">>, <<"-">> }

InitSafe ==
  /\ fs = TreeFS
  /\ \E u \in Targets(SafeParts, MaxParts + 1) :
       req = (1 :> [conn |-> 1, method |-> "GET", url |-> u, host |-> <<"localhost">>,
                    ims |-> NoHeader])
  /\ Fresh({1})

NextSafe == \E id \in DOMAIN req : CallIsPathSafe(id)

SpecSafe == InitSafe /\ [][NextSafe]_vars

\* One request whose target is made of dots in their three spellings, a
\* malformed escape, a name and a query mark, with a Host header that parses
\* or does not.
ScreenParts == { <<"/">>, <<".">>, <<"%2e">>, <<"%2E">>, <<"%zz">>, <<"a">>, <<"?">> }

InitScreen ==
  /\ fs = TreeFS
  /\ \E m \in {"GET", "HEAD"}, u \in Targets(ScreenParts, MaxParts), host \in Hosts :
       req = (1 :> [conn |-> 1, method |-> m, url |-> u, host |-> host, ims |-> NoHeader])
  /\ Fresh({1})

SpecScreen == InitScreen /\ [][Next]_vars

\* The target written without '.' segments and without repeated separators:
\* '/./f' and '//f' become '/f'; a separator at the end stays one.
WithoutDotSegments(url) ==
  LET segs     == Tail(Split(url, "/"))
      isNoise(g) == Len(g) = 0 \/ (Len(g) = 1 /\ g[1] = ".")
      kept     == SelectSeq(segs, LAMBDA g : ~isNoise(g))
      trailing == isNoise(segs[Len(segs)])
  IN <<"/">> \o Join(kept, "/") \o
     (IF trailing /\ Len(kept) > 0 THEN <<"/">> ELSE <<>>)

\* Two requests, one after the other: a target with '.' segments, repeated
\* separators and names that hold dots, then the same target written
\* without the '.' segments and the repetitions.
CanonParts == { <<"/">>, <<".">>, <<"f">>, <<"a", ".", "b", ".", "TXT">>, <<"d", ".", "css">> }

InitCanon ==
  /\ fs = MimeFS
  /\ \E m \in {"GET", "HEAD"}, u \in Targets(CanonParts, MaxParts) :
       req = (1 :> [conn |-> 1, method |-> m, url |-> u, host |-> <<"localhost">>,
                    ims |-> NoHeader])
          @@ (2 :> [conn |-> 1, method |-> m, url |-> WithoutDotSegments(u),
                    host |-> <<"localhost">>, ims |-> NoHeader])
  /\ Fresh({1, 2})

SpecCanon == InitCanon /\ [][Next]_vars

\* One GET or HEAD while something outside the server writes a file of the
\* root once, at any moment: before the stat, between the stat and the open
\* of the read stream, or between two reads.
WriteParts == { <<"/">>, <<"f">> }

InitWrite ==
  /\ fs = TreeFS
  /\ \E m \in {"GET", "HEAD"}, u \in Targets(WriteParts, MaxParts), c \in IOConditionals :
       req = (1 :> [conn |-> 1, method |-> m, url |-> u, host |-> <<"localhost">>,
                    ims |-> c])
  /\ Fresh({1})

NextWrite ==
  \/ \E id \in DOMAIN req : HandleRequest(id)
  \/ \E id \in DOMAIN req : StatCallback(id)
  \/ \E id \in DOMAIN req : IndexStatCallback(id)
  \/ \E id \in DOMAIN req : StreamOpen(id)
  \/ \E id \in DOMAIN req : StreamData(id)
  \/ \E id \in DOMAIN req : StreamEnd(id)
  \/ \E id \in DOMAIN req : StreamClose(id)
  \/ fs = TreeFS /\ \E p \in WritePaths, c \in WriteContents, t \in WriteTimes :
                      WriteFile(p, c, t)

SpecWrite == InitWrite /\ [][NextWrite]_vars

\* The served tree with one more directory, d, whose entry 'index.html' is
\* itself a directory.
IndexDirFS ==
  ( << <<"pub">>, <<"d">> >>            :> Dir(TRUE, 100) ) @@
  ( << <<"pub">>, <<"d">>, IndexName >> :> Dir(TRUE, 1500) ) @@
  TreeFS

IndexDirParts == { <<"/">>, <<"d">>, <<"f">>, IndexName }

InitIndexDir ==
  /\ fs = IndexDirFS
  /\ \E m \in {"GET", "HEAD"}, u \in Targets(IndexDirParts, MaxParts),
        c \in IOConditionals :
       req = (1 :> [conn |-> 1, method |-> m, url |-> u, host |-> <<"localhost">>,
                    ims |-> c])
  /\ Fresh({1})

\* the server's steps and the 'error' event of a read stream
NextIndexDir ==
  \/ \E id \in DOMAIN req : HandleRequest(id)
  \/ \E id \in DOMAIN req : StatCallback(id)
  \/ \E id \in DOMAIN req : IndexStatCallback(id)
  \/ \E id \in DOMAIN req : StreamOpen(id)
  \/ \E id \in DOMAIN req : StreamData(id)
  \/ \E id \in DOMAIN req : StreamEnd(id)
  \/ \E id \in DOMAIN req : StreamClose(id)
  \/ \E id \in DOMAIN req : StreamError(id)

SpecIndexDir == InitIndexDir /\ [][NextIndexDir]_vars

\* Two requests on two connections at the same time: any GET or HEAD on the
\* first, a GET for the root or for the file f on the second.
ConcParts == { <<"/">>, <<"f">> }

InitConc ==
  /\ fs = TreeFS
  /\ \E m \in {"GET", "HEAD"}, u \in Targets(ConcParts, MaxParts),
        u2 \in { <<"/">>, <<"/", "f">> } :
       req = (1 :> [conn |-> 1, method |-> m, url |-> u, host |-> <<"localhost">>,
                    ims |-> NoHeader])
          @@ (2 :> [conn |-> 2, method |-> "GET", url |-> u2, host |-> <<"localhost">>,
                    ims |-> NoHeader])
  /\ Fresh({1, 2})

\* The second request's own callbacks run when they are ready (its request
\* event, its fs.stat results, its stream events); nothing is assumed about
\* the first request, whose filesystem operations may stay pending forever.
\* handleRequest can run for a request that has arrived and whose turn it
\* is, a stat callback for a request that waits for its stat, and only they
\* end these conditions: the first three conjuncts are weak fairness of
\* HandleRequest(2), StatCallback(2) and IndexStatCallback(2).
FairSecond ==
  /\ []<>(~(pc[2] = "arrived" /\ Turn(2)))
  /\ []<>(pc[2] # "stat")
  /\ []<>(pc[2] # "statIndex")
  /\ WF_vars(StreamOpen(2) \/ StreamData(2) \/ StreamEnd(2))

SpecConc == InitConc /\ [][Next]_vars /\ FairSecond

\* One request whose target can hold percent escapes: '%66' is the escape of
\* 'f', '%zz' is no escape at all.
DecodeParts == { <<"/">>, <<"f">>, <<"%66">>, <<"%zz">>, <<"pub">> }

InitDecode ==
  /\ fs = TreeFS
  /\ \E m \in Methods, u \in Targets(DecodeParts, MaxParts), host \in Hosts :
       req = (1 :> [conn |-> 1, method |-> m, url |-> u, host |-> host,
                    ims |-> NoHeader])
  /\ Fresh({1})

SpecDecode == InitDecode /\ [][Next]_vars

---------------------------------------------------------------------------
(* Observations used by the properties                                     *)

Ids == DOMAIN req

Done(id) == pc[id] = "done"

GetOrHead(method) == method \in {"GET", "HEAD"}

StatusOf(id) == res[id].heads[1].status

HeadersOf(id) == res[id].heads[1].headers

\* the request went as far as fs.stat
Routed(id) == Len(fsCalls[id]) > 0

\* what the filesystem holds at the path the request was mapped to
Target(id) == Stat(fs, fsCalls[id][1].path)

\* what the filesystem holds at the path serveFile was, or would be, given
Served(id) == Stat(fs, h[id].filePath)

\* the request carries an If-Modified-Since date that is not before the
\* Last-Modified date (whole seconds) of the file st: the 304 case
ConditionMet(id, st) ==
  req[id].ims.kind = "date" /\ st.mtime \div 1000 <= req[id].ims.sec

\* the raw target holds two dots in a row, each written '.', '%2e' or '%2E'
ContainsDotDot(url) ==
  \E i \in 1..(Len(url) - 1) : url[i] \in DotForms /\ url[i + 1] \in DotForms

\* percent-decoding as decodeURIComponent does it, for the escapes in use
DecodeAtom(a) ==
  CASE a = "%66" -> "f"
    [] a = "%2e" -> "."
    [] a = "%2E" -> "."
    [] OTHER     -> a

PercentDecode(s) == [i \in 1..Len(s) |-> DecodeAtom(s[i])]

\* the target holds a '%' that no two hexadecimal digits follow
Malformed(url) == \E i \in 1..Len(url) : url[i] = "%zz"

\* how the request with its target written without escapes is routed
PlainRoute(id) == Route([req[id] EXCEPT !.url = PercentDecode(@)])

\* the k-th filesystem call of a request is a stat that fails
StatFails(id, k) ==
  fsCalls[id][k].op = "stat" /\ Stat(fs, fsCalls[id][k].path).err # ""

StatError(id, k) == Stat(fs, fsCalls[id][k].path).err

\* the order of the stages of a request and of its positions
StageRank(stage) ==
  CASE stage = "method"    -> 1
    [] stage = "prescreen" -> 2
    [] stage = "decode"    -> 3
    [] stage = "normalize" -> 4
    [] stage = "contain"   -> 5
    [] stage = "stat"      -> 6
    [] stage = "statIndex" -> 7
    [] OTHER               -> 8

PcRank(p) ==
  CASE p = "arrived"   -> 1
    [] p = "stat"      -> 2
    [] p = "statIndex" -> 3
    [] p = "streaming" -> 4
    [] OTHER           -> 5

ServeStages == {"serveFile", "serveIndex"}

LastStage(id) == h[id].stages[Len(h[id].stages)]

\* the read stream of a request is over: it ended, failed or was destroyed
StreamOver(id) == stream[id].state \in {"ended", "errored", "destroyed"}

\* the number of bytes of a body: its pieces are strings
RECURSIVE ByteLength(_)
ByteLength(body) ==
  IF Len(body) = 0 THEN 0 ELSE Len(body[1]) + ByteLength(Tail(body))

\* a path string is the root or a lexical descendant of it
LexicallyInRoot(p) ==
  /\ p = WEBROOT \/ StartsWith(p, WEBROOT \o <<"/">>)
  /\ \A i \in 1..Len(Split(p, "/")) : Split(p, "/")[i] # <<".", ".">>

---------------------------------------------------------------------------
(* Properties                                                              *)

\* C1: a GET or HEAD whose raw target holds '..' in any literal or
\* percent-encoded form, in either or mixed letter case, is answered 403.
C1_TraversalForbidden ==
  \A id \in Ids :
    (Done(id) /\ GetOrHead(req[id].method) /\ ContainsDotDot(req[id].url))
      => StatusOf(id) = 403

\* C2: every path handed to fs.stat or fs.createReadStream is the root or a
\* lexical descendant of the root, for every method, host and target.
C2_PathsInRoot ==
  \A id \in Ids :
    \A i \in 1..Len(fsCalls[id]) : LexicallyInRoot(fsCalls[id][i].path)

\* C2 witness: a target with an encoded '..' that the pre-screen lets through
\* has been mapped, stat'd and opened for reading.
C2_Witness ==
  \E id \in Ids :
    /\ ContainsDotDot(req[id].url)
    /\ Len(fsCalls[id]) >= 2
    /\ fsCalls[id][Len(fsCalls[id])].op = "open"

\* C3: no read stream ever opens, and no response ever carries, a file that
\* lies outside the root, also when the requested path is a symbolic link.
C3_NoFileOutsideRoot ==
  \A id \in Ids :
    stream[id].state \in {"open", "ended"} => InsideRoot(stream[id].real)

\* C4: a request whose method is neither GET nor HEAD is answered 405 with
\* Allow: GET, HEAD whatever its target, host and headers are, and only the
\* method stage is passed: no pre-screen, no decode, no filesystem call.
C4_MethodGate ==
  \A id \in Ids :
    ~GetOrHead(req[id].method) =>
      /\ pc[id] \in {"arrived", "done"}
      /\ fsCalls[id] = <<>>
      /\ Done(id) =>
           /\ Len(res[id].heads) = 1
           /\ StatusOf(id) = 405
           /\ "Allow" \in DOMAIN HeadersOf(id)
           /\ HeadersOf(id)["Allow"] = "GET, HEAD"
           /\ h[id].stages = <<"method">>
           /\ h[id].pathname = <<>>

\* C4 witness: a POST for a traversal target with an invalid Host header has
\* been answered.
C4_Witness ==
  \E id \in Ids :
    /\ Done(id)
    /\ req[id].method = "POST"
    /\ ContainsDotDot(req[id].url)
    /\ ~HostHeaderOk(req[id].host)
    /\ StatusOf(id) = 405

\* C5: a GET whose target maps to an existing regular file inside the root
\* is answered 200 with the file's bytes as the body and Content-Length
\* equal to the file's size (a conditional GET whose If-Modified-Since date
\* is met is the 304 case of C9 and is left to it).
C5_FileServed ==
  \A id \in Ids :
    ( /\ Done(id) /\ req[id].method = "GET"
      /\ Routed(id)
      /\ Target(id).err = "" /\ Target(id).kind = "file"
      /\ InsideRoot(Target(id).real)
      /\ ~ConditionMet(id, Target(id)) )
    => /\ Len(res[id].heads) = 1
       /\ StatusOf(id) = 200
       /\ res[id].body = fs[Target(id).real].content
       /\ HeadersOf(id)["Content-Length"] = Len(fs[Target(id).real].content)
       /\ res[id].ended

\* C5 witness: index.html, two bytes long, has been served whole to a GET
\* whose If-Modified-Since date is before the file's.
C5_Witness ==
  \E id \in Ids :
    /\ Done(id) /\ req[id].method = "GET" /\ req[id].ims.kind = "date"
    /\ Routed(id) /\ Target(id).err = "" /\ Target(id).kind = "file"
    /\ InsideRoot(Target(id).real)
    /\ ~ConditionMet(id, Target(id))
    /\ Len(res[id].body) = 2

\* C6: a GET or HEAD without a traversal sequence whose target maps to a path
\* at which nothing exists, a path below a regular file included, is
\* answered 404.
C6_MissingIs404 ==
  \A id \in Ids :
    ( /\ Done(id) /\ GetOrHead(req[id].method)
      /\ ~ContainsDotDot(req[id].url)
      /\ Routed(id)
      /\ Target(id).err \in {"ENOENT", "ENOTDIR"} )
    => StatusOf(id) = 404

\* C7: a request for a directory is answered from its index.html (200, the
\* index file's bytes, size, date and type) when index.html is a file, and
\* 403 when the stat of index.html fails, whatever the failure is.
C7_DirectoryIndex ==
  \A id \in Ids :
    ( /\ Done(id) /\ Routed(id)
      /\ Target(id).err = "" /\ Target(id).kind = "dir" )
    => /\ Len(res[id].heads) = 1
       /\ Served(id).err # "" => StatusOf(id) = 403
       /\ (Served(id).err = "" /\ Served(id).kind = "file"
           /\ ~ConditionMet(id, Served(id)))
          => /\ StatusOf(id) = 200
             /\ HeadersOf(id)["Content-Length"] = Len(fs[Served(id).real].content)
             /\ HeadersOf(id)["Last-Modified"] = ToUTCString(Served(id).mtime)
             /\ HeadersOf(id)["Content-Type"] = "text/html"
             /\ res[id].body = IF req[id].method = "GET"
                                 THEN fs[Served(id).real].content ELSE <<>>

\* C7 witness: a directory whose index.html cannot be stat'd for lack of
\* search permission has been answered.
C7_Witness ==
  \E id \in Ids :
    /\ Done(id) /\ Routed(id)
    /\ Target(id).err = "" /\ Target(id).kind = "dir"
    /\ Served(id).err = "EACCES"

\* C9: with an If-Modified-Since that parses to the time T, a GET or HEAD of
\* an existing file is answered 304 with no body when the file's
\* modification time cut to whole seconds is at most T, and 200 (with the
\* whole file for GET) when it is later; the Last-Modified value sent back
\* unchanged gives 304.
C9_Conditional ==
  \A id \in Ids :
    ( /\ Done(id) /\ Routed(id) /\ GetOrHead(req[id].method)
      /\ Served(id).err = "" /\ Served(id).kind = "file"
      /\ req[id].ims.kind = "date" )
    => LET T       == req[id].ims.sec * 1000
           seconds == (Served(id).mtime \div 1000) * 1000
       IN /\ Len(res[id].heads) = 1
          /\ seconds <= T => (StatusOf(id) = 304 /\ res[id].body = <<>>)
          /\ seconds > T =>
               /\ StatusOf(id) = 200
               /\ req[id].method = "GET" => res[id].body = fs[Served(id).real].content
               /\ req[id].method = "HEAD" => res[id].body = <<>>
          /\ req[id].ims = ToUTCString(Served(id).mtime) => StatusOf(id) = 304

\* C9 witness: a file modified half a second after T, in the same second, has
\* been answered 304.
C9_Witness ==
  \E id \in Ids :
    /\ Done(id) /\ Routed(id)
    /\ Served(id).err = "" /\ Served(id).kind = "file"
    /\ req[id].ims.kind = "date"
    /\ Served(id).mtime > req[id].ims.sec * 1000
    /\ StatusOf(id) = 304

\* two requests that differ at most in method and If-Modified-Since
SameTarget(i, j) == req[i].url = req[j].url /\ req[i].host = req[j].host

\* C8: for an existing resource and an unchanged filesystem, a HEAD and a GET
\* for the same target get the same status and the same headers
\* (Content-Type, Content-Length, Last-Modified, Cache-Control), and the HEAD
\* response has no body.
C8_HeadMatchesGet ==
  \A i, j \in Ids :
    ( /\ Done(i) /\ Done(j) /\ SameTarget(i, j)
      /\ req[i].method = "GET" /\ req[j].method = "HEAD"
      /\ req[i].ims = req[j].ims
      /\ Routed(i) /\ Target(i).err = "" )
    => /\ Len(res[i].heads) = 1
       /\ res[j].heads = res[i].heads
       /\ res[j].body = <<>>

\* C8 witness: a GET answered 200 with a body and the HEAD after it have both
\* completed.
C8_Witness ==
  \E i, j \in Ids :
    /\ Done(i) /\ Done(j) /\ SameTarget(i, j)
    /\ req[i].method = "GET" /\ req[j].method = "HEAD"
    /\ req[i].ims = req[j].ims
    /\ StatusOf(i) = 200 /\ Len(res[i].body) > 0
    /\ StatusOf(j) = 200

\* C10: a request whose If-Modified-Since does not parse gets the response
\* the same request gets without the header (status, headers, body and log
\* record), which is never a 304.
C10_GarbageIsAbsent ==
  \A i, j \in Ids :
    ( /\ Done(i) /\ Done(j) /\ SameTarget(i, j)
      /\ req[i].method = req[j].method
      /\ req[i].ims = NoHeader /\ req[j].ims = Garbage )
    => /\ res[j] = res[i]
       /\ logs[j] = logs[i]
       /\ StatusOf(j) # 304
       /\ (Routed(j) /\ Served(j).err = "" /\ Served(j).kind = "file")
            => StatusOf(j) = 200

\* C10 witness: a GET with an unparseable If-Modified-Since has been answered
\* 200 with the file's bytes.
C10_Witness ==
  \E i, j \in Ids :
    /\ Done(i) /\ Done(j) /\ SameTarget(i, j)
    /\ req[i].ims = NoHeader /\ req[j].ims = Garbage
    /\ req[j].method = "GET"
    /\ StatusOf(j) = 200 /\ Len(res[j].body) > 0

\* C11: a 304 response is the same for GET and HEAD: one writeHead with
\* Last-Modified and Cache-Control and nothing else (no Content-Type, no
\* Content-Length), no body, the log record 304 with 0 bytes, and no read
\* stream is created or opened for the request.
C11_NotModifiedShape ==
  /\ \A id \in Ids :
       (Len(res[id].heads) > 0 /\ StatusOf(id) = 304) =>
         /\ res[id] = [NewResponse EXCEPT
                         !.heads = << [status  |-> 304,
                                       headers |->
                                         ("Last-Modified" :> ToUTCString(Served(id).mtime)) @@
                                         ("Cache-Control" :> "public, max-age=60")] >>,
                         !.ended = TRUE]
         /\ DOMAIN HeadersOf(id) = {"Last-Modified", "Cache-Control"}
         /\ stream[id] = NoStream
         /\ \A k \in 1..Len(fsCalls[id]) : fsCalls[id][k].op = "stat"
         /\ logs[id] = << LogRecord(304, 0) >>
  /\ \A i, j \in Ids :
       ( /\ Done(i) /\ Done(j) /\ SameTarget(i, j)
         /\ StatusOf(i) = 304 /\ StatusOf(j) = 304 )
       => res[i] = res[j]

\* C11 witness: a GET and the HEAD after it have both been answered 304.
C11_Witness ==
  \E i, j \in Ids :
    /\ Done(i) /\ Done(j)
    /\ req[i].method = "GET" /\ req[j].method = "HEAD"
    /\ StatusOf(i) = 304 /\ StatusOf(j) = 304

C13_OkHeaders ==
  \A id \in Ids :
    (Len(res[id].heads) > 0 /\ StatusOf(id) = 200) =>
      /\ DOMAIN HeadersOf(id) =
           {"Content-Type", "Content-Length", "Last-Modified", "Cache-Control"}
      /\ HeadersOf(id)["Content-Length"] = Served(id).size
      /\ HeadersOf(id)["Last-Modified"] = [kind |-> "date", sec |-> Served(id).mtime \div 1000]
      /\ HeadersOf(id)["Cache-Control"] = "public, max-age=60"
      /\ HeadersOf(id)["Content-Type"] = getMimeType(h[id].filePath)

\* C13 witness: a directory's index.html (2 bytes, modified at 2.5 s) has
\* been answered 200 with Content-Length 2 and the date of second 2.
C13_Witness ==
  \E id \in Ids :
    /\ Len(res[id].heads) > 0 /\ StatusOf(id) = 200
    /\ Routed(id) /\ Target(id).kind = "dir"
    /\ HeadersOf(id)["Content-Length"] = 2
    /\ HeadersOf(id)["Last-Modified"].sec = 2
    /\ HeadersOf(id)["Content-Type"] = "text/html"

\* C14: a GET or HEAD whose target percent-encodes characters of the name of
\* an existing file is looked up under the decoded name: it is answered 200
\* from the file the target written without escapes maps to.
C14_EncodedServed ==
  \A id \in Ids :
    ( /\ Done(id) /\ GetOrHead(req[id].method)
      /\ ~Malformed(req[id].url)
      /\ PercentDecode(req[id].url) # req[id].url
      /\ PlainRoute(id).out = "stat"
      /\ Stat(fs, PlainRoute(id).filePath).err = ""
      /\ Stat(fs, PlainRoute(id).filePath).kind = "file" )
    => /\ StatusOf(id) = 200
       /\ Routed(id)
       /\ Served(id).real = Stat(fs, PlainRoute(id).filePath).real

\* C15: a GET or HEAD whose target passes the pre-screen and cannot be
\* decoded (a malformed percent escape in it, or an invalid Host header) is
\* answered 400 without any filesystem call.
C15_UndecodableIs400 ==
  \A id \in Ids :
    ( /\ Done(id) /\ GetOrHead(req[id].method)
      /\ ~PreScreen(req[id].url)
      /\ Malformed(req[id].url) \/ ~HostHeaderOk(req[id].host) )
    => /\ StatusOf(id) = 400
       /\ fsCalls[id] = <<>>

\* C16 as claimed: for every stat call of a request, the first and the one
\* for index.html, a failure with ENOENT is not answered 500 and a failure
\* of any other kind is answered 500.
C16_EveryStatFailure ==
  \A id \in Ids :
    Done(id) =>
      \A k \in 1..Len(fsCalls[id]) :
        StatFails(id, k) =>
          IF StatError(id, k) = "ENOENT" THEN StatusOf(id) # 500
          ELSE StatusOf(id) = 500

\* C16 as amended: a stat failure with ENOENT is never answered 500 (404 for
\* the requested path); every other failure of the stat of the requested
\* path is answered 500; every failure of the stat of index.html, of
\* whatever kind, is answered 403.
C16_StatFailureByCall ==
  \A id \in Ids :
    Done(id) =>
      \A k \in 1..Len(fsCalls[id]) :
        StatFails(id, k) =>
          /\ Len(res[id].heads) = 1
          /\ StatError(id, k) = "ENOENT" => StatusOf(id) # 500
          /\ (k = 1 /\ StatError(id, k) = "ENOENT") => StatusOf(id) = 404
          /\ (k = 1 /\ StatError(id, k) # "ENOENT") => StatusOf(id) = 500
          /\ k = 2 => StatusOf(id) = 403

\* C16 witness: the stat of the requested path failed for lack of search
\* permission and the request has been answered 500.
C16_Witness ==
  \E id \in Ids :
    /\ Done(id) /\ Routed(id)
    /\ StatFails(id, 1) /\ StatError(id, 1) = "EACCES"
    /\ StatusOf(id) = 500

\* C17: the stages a request has passed are in the order method check,
\* pre-screen, decode, normalize, containment, stat, index stat, outcome; a
\* step never takes a request back; headers are written at most once and
\* before any body byte; a finished request has exactly one outcome: served
\* as file or as index (200 or 304), or rejected with 400, 403, 404, 405 or
\* 500.
C17_StagesInv ==
  \A id \in Ids :
    LET st == h[id].stages IN
    /\ \A k \in 1..(Len(st) - 1) : StageRank(st[k]) < StageRank(st[k + 1])
    /\ Len(st) > 0 => st[1] = "method"
    /\ Len(res[id].heads) <= 1
    /\ res[id].body # <<>> => Len(res[id].heads) = 1
    /\ Done(id) =>
         /\ Len(res[id].heads) = 1
         /\ IF LastStage(id) \in ServeStages
              THEN StatusOf(id) \in {200, 304}
              ELSE StatusOf(id) \in {400, 403, 404, 405, 500}
         /\ Cardinality({k \in 1..Len(st) : StageRank(st[k]) = 8}) <= 1

C17_StagesStep ==
  \A id \in Ids :
    /\ PcRank(pc'[id]) >= PcRank(pc[id])
    /\ Len(h'[id].stages) >= Len(h[id].stages)
    /\ SubSeq(h'[id].stages, 1, Len(h[id].stages)) = h[id].stages
    /\ Len(res[id].heads) = 1 => res'[id].heads = res[id].heads

C17_Stages == []C17_StagesInv /\ [][C17_StagesStep]_vars

\* C17 witness: a GET for a directory has passed every stage and has been
\* served its index.html with 200 and a body.
C17_Witness ==
  \E id \in Ids :
    /\ Done(id)
    /\ h[id].stages = <<"method", "prescreen", "decode", "normalize", "contain",
                        "stat", "statIndex", "serveIndex">>
    /\ StatusOf(id) = 200 /\ Len(res[id].body) = 2

\* C18: when the open or a read of the file fails after the 200 head was
\* written, no second head and no error response is written: the response
\* keeps its one 200 head, is torn down unfinished, and the failure is
\* logged; the request after it is still taken up and answered in full.
C18_ReadFailure ==
  /\ \A id \in Ids :
       stream[id].state = "errored" =>
         /\ Done(id)
         /\ Len(res[id].heads) = 1 /\ StatusOf(id) = 200
         /\ res[id].destroyed /\ ~res[id].ended
         /\ Len(res[id].body) <= HeadersOf(id)["Content-Length"]
         /\ Len(logs[id]) = 1 /\ logs[id][1].status = 500
  /\ \A i, j \in Ids :
       (i < j /\ stream[i].state = "errored") =>
         /\ pc[j] = "arrived" => Turn(j)
         /\ (Done(j) /\ ~res[j].destroyed) =>
              /\ Len(res[j].heads) = 1 /\ res[j].ended
              /\ (StatusOf(j) = 200 /\ req[j].method = "GET") =>
                   /\ stream[j].state = "ended"
                   /\ Len(res[j].body) = HeadersOf(j)["Content-Length"]

\* C18 witness: a transfer failed after one byte of two, and the GET after
\* it has been answered 200 with both bytes.
C18_Witness ==
  \E i, j \in Ids :
    /\ i < j
    /\ stream[i].state = "errored" /\ Len(res[i].body) = 1
    /\ Done(j) /\ req[j].method = "GET"
    /\ StatusOf(j) = 200 /\ res[j].ended /\ Len(res[j].body) = 2

\* C19: a read stream that was created comes to its end, and a file
\* descriptor it opened is closed, after the last byte, after a disconnect
\* and after a read error alike; once the client has disconnected nothing
\* more is read, opened or written for the request.
C19_Abandoned ==
  \A id \in Ids :
    stream[id].state = "destroyed" =>
      /\ stream'[id].state = "destroyed"
      /\ stream'[id].pos = stream[id].pos
      /\ fsCalls'[id] = fsCalls[id]
      /\ res'[id] = res[id]
      /\ logs'[id] = logs[id]

C19_StreamsClosed ==
  /\ \A id \in {1, 2} :
       (stream[id].state \in {"created", "open"} \/ stream[id].fd)
         ~> (StreamOver(id) /\ ~stream[id].fd)
  /\ [][C19_Abandoned]_vars

\* C19 witness: the client disconnected after the first byte and the
\* stream's file descriptor has been closed.
C19_Witness ==
  \E id \in Ids :
    /\ stream[id].state = "destroyed" /\ stream[id].pos = 1
    /\ stream[id].real # <<>> /\ ~stream[id].fd

\* C20: the log record of a finished request holds the status that was sent
\* and the number of body bytes that were sent.
C20_LogMatchesWire ==
  \A id \in Ids :
    (Done(id) /\ Len(logs[id]) > 0) =>
      /\ Len(logs[id]) = 1
      /\ logs[id][1].status = StatusOf(id)
      /\ logs[id][1].bytes = ByteLength(res[id].body)

\* C21: a request completes whatever another request on another connection
\* does: with the first request left waiting for its stat result or its
\* file data for as long as one likes, the second passes all its stages and
\* is answered.
C21_Independent == <>(pc[2] = "done" /\ Len(res[2].heads) = 1 /\ res[2].ended)

\* C21 witness: the second request has been answered 200 with the whole file
\* while the first is still waiting for its stat result.
C21_Witness ==
  /\ pc[1] = "stat"
  /\ Done(2) /\ StatusOf(2) = 200 /\ res[2].ended
  /\ Len(res[2].body) = HeadersOf(2)["Content-Length"]

\* C22: the second of two requests for one target, started after a file was
\* created, removed, resized or touched from outside, is answered from the
\* tree as it is then: 404 for a path that is gone, and for a file the
\* status, Content-Length and Last-Modified of its present size and time.
C22_FreshStat ==
  ( /\ Done(2) /\ Routed(2) ) =>
    /\ Target(2).err = "ENOENT" => StatusOf(2) = 404
    /\ ( /\ Served(2).err = "" /\ Served(2).kind = "file" ) =>
         /\ StatusOf(2) = (IF ConditionMet(2, Served(2)) THEN 304 ELSE 200)
         /\ HeadersOf(2)["Last-Modified"] =
              [kind |-> "date", sec |-> Served(2).mtime \div 1000]
         /\ StatusOf(2) = 200 =>
              /\ HeadersOf(2)["Content-Length"] = Served(2).size
              /\ req[2].method = "GET" =>
                   res[2].body = fs[Served(2).real].content

\* C22 witness: a file written from outside between the two requests: the
\* first was answered 200 with the old length, the second 200 with the new.
C22_Witness ==
  /\ fs # TreeFS
  /\ Done(1) /\ Done(2)
  /\ StatusOf(1) = 200 /\ StatusOf(2) = 200
  /\ HeadersOf(2)["Content-Length"] = 3
  /\ HeadersOf(1)["Content-Length"] # 3

\* the type the table gives a file name: its last extension in lower case,
\* looked up, and the fallback for anything else
ExpectedType(name) ==
  LET d   == LastDot(name, Len(name))
      ext == IF d > 1 /\ Len(name) = d + 1 THEN ToLowerAtom(name[d + 1]) ELSE ""
  IN IF ext \in DOMAIN MIME_TYPES THEN MIME_TYPES[ext]
     ELSE "application/octet-stream"

\* C23: the Content-Type of every 200 response is the table's entry for the
\* served file's extension in lower case, 'application/octet-stream' when
\* the extension is missing or not in the table, and text/html (the type of
\* index.html) when the target is a directory.
C23_TypeByExtension ==
  \A id \in DOMAIN req :
    ( /\ Done(id) /\ StatusOf(id) = 200 ) =>
      LET name == Served(id).real[Len(Served(id).real)] IN
      /\ HeadersOf(id)["Content-Type"] = ExpectedType(name)
      /\ Target(id).kind = "dir" => HeadersOf(id)["Content-Type"] = "text/html"
      /\ ( /\ Len(name) > 1 /\ name[Len(name)] \in {"HTML", "html"} ) =>
           HeadersOf(id)["Content-Type"] = "text/html"
      /\ name \in { <<"f">>, <<".", "txt">>, <<"a", ".">>, <<"a", ".", "bin">> } =>
           HeadersOf(id)["Content-Type"] = "application/octet-stream"

\* C23 witness: the file a.HTML has been served as text/html.
C23_Witness ==
  /\ Done(1) /\ StatusOf(1) = 200
  /\ Served(1).real = << <<"pub">>, <<"a", ".", "HTML">> >>
  /\ HeadersOf(1)["Content-Type"] = "text/html"

\* C24: isPathSafe returns true only for the root and its descendants: the
\* first name of the resolved path is the root's name 'pub', so a path in a
\* sibling directory such as '/pub-/f' or the sibling '/pubf' gets false.
C24_OnlyDescendants ==
  \A id \in DOMAIN req :
    pc[id] = "safe" =>
      LET names == Components(PathResolve(h[id].filePath)) IN
      Len(names) >= 1 /\ names[1] = <<"pub">>

\* C25: a GET or HEAD whose raw target holds a traversal sequence and cannot
\* be decoded (a malformed escape in it, or a Host header that does not
\* parse) is answered 403 and not 400, and a target with a literal '..'
\* anywhere, in the query or inside a name, is answered 403.
C25_ScreenBeforeDecode ==
  \A id \in DOMAIN req :
    ( /\ Done(id) /\ GetOrHead(req[id].method) ) =>
      /\ ( /\ ContainsDotDot(req[id].url)
           /\ Malformed(req[id].url) \/ ~HostHeaderOk(req[id].host) )
         => StatusOf(id) = 403
      /\ Includes(req[id].url, <<".", ".">>) => StatusOf(id) = 403

\* C26: two targets that differ only by '.' segments or repeated separators
\* are mapped to the same filesystem path and get the same response, and a
\* target whose names hold single dots only (no two dots in a row) is not
\* answered 403 by the traversal checks.
C26_SameAsCanonical ==
  ( /\ Done(1) /\ Done(2) ) =>
    /\ h[1].filePath = h[2].filePath
    /\ res[1] = res[2]
    /\ ( /\ ~ContainsDotDot(req[1].url) /\ Routed(1) ) =>
         Route(req[1]).out = "stat"

\* C27: for every GET answered 200 whose read has ended, the number of body
\* bytes written equals the Content-Length sent, also when the file was
\* truncated, extended or replaced from outside after the stat.
C27_BodyMatchesLength ==
  \A id \in DOMAIN req :
    ( /\ Done(id) /\ req[id].method = "GET" /\ StatusOf(id) = 200
      /\ stream[id].state = "ended" ) =>
      Len(res[id].body) = HeadersOf(id)["Content-Length"]

\* serveFile has been called for the request
ServeFileCalled(id) ==
  \E i \in 1..Len(h[id].stages) : h[id].stages[i] \in {"serveFile", "serveIndex"}

\* C28: serveFile is called only with a path at which stat finds a regular
\* file, and a response has 200 headers only for such a path: a directory
\* whose 'index.html' is a directory gets neither.
C28_OnlyRegularFiles ==
  \A id \in DOMAIN req :
    /\ ServeFileCalled(id) => Served(id).kind = "file"
    /\ ( /\ Len(res[id].heads) >= 1 /\ StatusOf(id) = 200 ) =>
         Served(id).kind = "file"

\* C29: a request never has two log records, and once it has reached its
\* outcome (a response ended, a read that failed, a client that went away
\* in the middle of the transfer) it has exactly one.
C29_OneLogRecord ==
  \A id \in DOMAIN req :
    /\ Len(logs[id]) <= 1
    /\ Done(id) => Len(logs[id]) = 1
    /\ StreamOver(id) => Len(logs[id]) = 1

\* C29 witness: the client went away after the first byte of a GET, the read
\* stream was destroyed, and the request has its one record.
C29_Witness ==
  \E id \in DOMAIN req :
    /\ Done(id) /\ req[id].method = "GET"
    /\ stream[id].state = "destroyed" /\ res[id].destroyed
    /\ Len(res[id].body) = 1
    /\ Len(logs[id]) = 1

=============================================================================
